---- MODULE Spec2Model ----
(***************************************************************************)
(* Verification model of HelmholtzCoil.py: magnetic field of a current     *)
(* loop, of a Helmholtz pair and of an anti-Helmholtz pair.                *)
(*                                                                         *)
(* The module computes with binary floating-point numbers.  The model      *)
(* keeps that arithmetic: a number is a significand of at most Prec bits   *)
(* and an exponent, every operation rounds its exact result to nearest,    *)
(* ties to even, results below the smallest positive number underflow      *)
(* (gradually, then to 0), and division by zero yields inf or nan as       *)
(* numpy's float64 does.  The significand is narrower than the 53 bits of  *)
(* a float64.  No input of the model is large enough for a result to       *)
(* overflow, so overflow is not modelled.                                  *)
(***************************************************************************)
EXTENDS Integers, Sequences, FiniteSets, TLC

\* Width of the significand, in bits.
Prec == 8

\* ------------------------------------------------------------------------
\* Floating-point numbers
\* ------------------------------------------------------------------------

Abs(n) == IF n < 0 THEN -n ELSE n

Sgn(n) == IF n < 0 THEN -1 ELSE IF n > 0 THEN 1 ELSE 0

RECURSIVE BitLen(_)
BitLen(n) == IF n = 0 THEN 0 ELSE 1 + BitLen(n \div 2)

RECURSIVE ISqrt(_)
\* floor of the square root of a natural number
ISqrt(n) ==
  IF n < 2 THEN n
  ELSE LET s == 2 * ISqrt(n \div 4)
       IN IF (s + 1) * (s + 1) <= n THEN s + 1 ELSE s

Fin(m, e) == [k |-> "fin", m |-> m, e |-> e]
Zero == Fin(0, 0)
Inf(s) == [k |-> "inf", m |-> s, e |-> 0]
NaN == [k |-> "nan", m |-> 0, e |-> 0]

IsFin(a) == a.k = "fin"
IsNaN(a) == a.k = "nan"
IsInf(a) == a.k = "inf"

\* Every float64 is a multiple of 2^-1074, the smallest positive one.
MinExp == -1074

Max(x, y) == IF x >= y THEN x ELSE y

Min(x, y) == IF x <= y THEN x ELSE y

\* The operators below bind their operands, and what they compute from them,
\* as the element of a one-element set, so that each is evaluated once however
\* often it is used.

\* a > 0 without its k > 0 lowest bits, rounded to nearest, ties to even
Nearest(a, k) ==
  CHOOSE val \in {(
    IF r[2] > 2^(k - 1) \/ (r[2] = 2^(k - 1) /\ r[1] % 2 = 1) THEN r[1] + 1 ELSE r[1]
    ) : r \in {<< a \div 2^k, a % 2^k >>}} : TRUE

\* sign * q * 2^e, q of at most Prec bits after a rounding that may carry
Carried(sign, q, e) ==
  IF q = 0 THEN Zero
  ELSE IF q = 2^Prec THEN Fin(sign * 2^(Prec - 1), e + 1)
  ELSE Fin(sign * q, e)

\* The number M * 2^E rounded to a multiple of 2^MinExp of at most Prec
\* significant bits, ties to even.  The result is normalised
\* (2^(Prec-1) <= |m| < 2^Prec) unless it is subnormal (e = MinExp), so that
\* equal numbers are equal records.  L is the bit length of M, k the number
\* of bits to drop.
Rnd(M0, E0) ==
  CHOOSE val \in UNION {{(
    IF M = 0 THEN Zero
    ELSE IF k > L THEN Zero
    ELSE IF k > 0 THEN Carried(Sgn(M), Nearest(Abs(M), k), E + k)
    ELSE Fin(M * 2^Min(Prec - L, E - MinExp), E - Min(Prec - L, E - MinExp))
    ) : k \in {Max(L - Prec, MinExp - E)}}
      : M \in {M0}, E \in {E0}, L \in {BitLen(Abs(M0))}} : TRUE

\* the significand and exponent of a nonzero finite number, the significand
\* brought to Prec bits
Nrm(a0) ==
  CHOOSE val \in {(
    << a.m * 2^s, a.e - s >>
    ) : a \in {a0}, s \in {Prec - BitLen(Abs(a0.m))}} : TRUE

FromInt(n) == Rnd(n, 0)
One == FromInt(1)
Two == FromInt(2)

Neg(a) == IF IsNaN(a) THEN NaN ELSE [a EXCEPT !.m = -a.m]

FAbs(a) == IF IsNaN(a) THEN NaN ELSE [a EXCEPT !.m = Abs(a.m)]

\* a < b on numbers (false when either is nan)
Less(a0, b0) ==
  CHOOSE val \in {(
    IF IsNaN(a) \/ IsNaN(b) THEN FALSE
    ELSE IF IsInf(a) THEN a.m < 0 /\ ~(IsInf(b) /\ b.m < 0)
    ELSE IF IsInf(b) THEN b.m > 0
    ELSE IF Sgn(a.m) # Sgn(b.m) THEN Sgn(a.m) < Sgn(b.m)
    ELSE IF a.m = 0 THEN FALSE
    ELSE IF a.e # b.e THEN (IF a.m > 0 THEN a.e < b.e ELSE a.e > b.e)
    ELSE a.m < b.m
    ) : a \in {a0}, b \in {b0}} : TRUE

Leq(a, b) == ~IsNaN(a) /\ ~IsNaN(b) /\ ~Less(b, a)

\* hi + lo, hi the operand of the larger exponent
AddOrdered(hi, lo) ==
  IF hi.e - lo.e > Prec + 2
  \* lo is below a quarter of hi's last place: it only decides the rounding
  THEN Rnd(4 * hi.m + Sgn(lo.m), hi.e - 2)
  ELSE Rnd(hi.m * 2^(hi.e - lo.e) + lo.m, lo.e)

Add(a0, b0) ==
  CHOOSE val \in {(
    IF IsNaN(a) \/ IsNaN(b) THEN NaN
    ELSE IF IsInf(a) THEN (IF IsInf(b) /\ b.m # a.m THEN NaN ELSE a)
    ELSE IF IsInf(b) THEN b
    ELSE IF a.m = 0 THEN b
    ELSE IF b.m = 0 THEN a
    ELSE IF a.e >= b.e THEN AddOrdered(a, b)
    ELSE AddOrdered(b, a)
    ) : a \in {a0}, b \in {b0}} : TRUE

Sub(a, b) == Add(a, Neg(b))

Mul(a0, b0) ==
  CHOOSE val \in {(
    IF IsNaN(a) \/ IsNaN(b) THEN NaN
    ELSE IF IsInf(a) \/ IsInf(b)
         THEN (IF a.m = 0 \/ b.m = 0 THEN NaN ELSE Inf(Sgn(a.m) * Sgn(b.m)))
    ELSE Rnd(a.m * b.m, a.e + b.e)
    ) : a \in {a0}, b \in {b0}} : TRUE

\* the quotient n / d of two naturals, d > 0, doubled, its last bit sticky
Quotient(n, d) == 2 * (n \div d) + (IF n % d = 0 THEN 0 ELSE 1)

\* float64 division: x/0 is inf (x # 0) or nan (x = 0), never an exception
Div(a0, b0) ==
  CHOOSE val \in {(
    IF IsNaN(a) \/ IsNaN(b) THEN NaN
    ELSE IF IsInf(a) THEN (IF IsInf(b) THEN NaN
                           ELSE Inf(a.m * (IF b.m < 0 THEN -1 ELSE 1)))
    ELSE IF IsInf(b) THEN Zero
    ELSE IF b.m = 0 THEN (IF a.m = 0 THEN NaN ELSE Inf(Sgn(a.m)))
    ELSE IF a.m = 0 THEN Zero
    ELSE Rnd(Sgn(a.m) * Sgn(b.m) * Quotient(Abs(na[1]) * 2^(Prec + 2), Abs(b.m)),
             na[2] - b.e - (Prec + 2) - 1)
    ) : a \in {a0}, b \in {b0},
        na \in {IF IsFin(a0) /\ a0.m # 0 THEN Nrm(a0) ELSE << 0, 0 >>}} : TRUE

\* the root of the integer n * 2^e (e even), rounded
RootOf(n0, e0) ==
  CHOOSE val \in {(
    Rnd(2 * q + (IF q * q = n THEN 0 ELSE 1), (e \div 2) - 1)
    ) : n \in {n0}, e \in {e0}, q \in {ISqrt(n0)}} : TRUE

Sqrt(a0) ==
  CHOOSE val \in {(
    IF IsNaN(a) THEN NaN
    ELSE IF IsInf(a) THEN (IF a.m > 0 THEN a ELSE NaN)
    ELSE IF a.m < 0 THEN NaN
    ELSE IF a.m = 0 THEN Zero
    ELSE IF (na[2] - (Prec + 2)) % 2 = 0
         THEN RootOf(na[1] * 2^(Prec + 2), na[2] - (Prec + 2))
         ELSE RootOf(na[1] * 2^(Prec + 3), na[2] - (Prec + 3))
    ) : a \in {a0},
        na \in {IF IsFin(a0) /\ a0.m > 0 THEN Nrm(a0) ELSE << 0, 0 >>}} : TRUE

\* x**2
Sq(a) == Mul(a, a)

\* x**3: the exact cube, rounded once
Cube(a0) ==
  CHOOSE val \in {(
    IF IsNaN(a) THEN NaN
    ELSE IF IsInf(a) THEN a
    ELSE Rnd(a.m * a.m * a.m, 3 * a.e)
    ) : a \in {a0}} : TRUE

\* x**(3/2): the exact power, rounded once
Pow15(a0) ==
  CHOOSE val \in {(
    IF IsNaN(a) THEN NaN
    ELSE IF IsInf(a) THEN (IF a.m > 0 THEN a ELSE NaN)
    ELSE IF a.m < 0 THEN NaN
    ELSE IF a.m = 0 THEN Zero
    ELSE IF (3 * na[2]) % 2 = 0
         THEN RootOf(na[1] * na[1] * na[1], 3 * na[2])
         ELSE RootOf(2 * na[1] * na[1] * na[1], 3 * na[2] - 1)
    ) : a \in {a0},
        na \in {IF IsFin(a0) /\ a0.m > 0 THEN Nrm(a0) ELSE << 0, 0 >>}} : TRUE

\* ------------------------------------------------------------------------
\* Library functions the module calls (numpy, scipy.special)
\* ------------------------------------------------------------------------

\* np.pi: pi to 28 fractional bits, rounded to the significand
Pi == Rnd(843314857, -28)

\* np.sqrt
NpSqrt(a) == Sqrt(a)

RECURSIVE AgmK(_, _, _)
\* arithmetic-geometric mean of a and b; fuel bounds the iteration
AgmK(a0, b0, fuel0) ==
  CHOOSE val \in {(
    IF fuel = 0 \/ a = b THEN a
    ELSE AgmK(Div(Add(a, b), Two), Sqrt(Mul(a, b)), fuel - 1)
    ) : a \in {a0}, b \in {b0}, fuel \in {fuel0}} : TRUE

RECURSIVE AgmSum(_, _, _, _)
\* sum over n >= 1 of 2^(n-1) c_n^2, with c_n = (a_(n-1) - b_(n-1)) / 2
AgmSum(a0, b0, w0, fuel0) ==
  CHOOSE val \in {(
    IF fuel = 0 \/ a = b THEN Zero
    ELSE LET c == Div(Sub(a, b), Two)
         IN Add(Mul(w, Sq(c)),
                AgmSum(Div(Add(a, b), Two), Sqrt(Mul(a, b)), Mul(Two, w), fuel - 1))
    ) : a \in {a0}, b \in {b0}, w \in {w0}, fuel \in {fuel0}} : TRUE

\* scipy.special.ellipk(m): complete elliptic integral of the first kind of
\* the parameter m; pi/2 at m = 0, inf at m = 1, nan for m > 1
ellipk(m) ==
  IF IsNaN(m) \/ Less(One, m) THEN NaN
  ELSE IF m = One THEN Inf(1)
  ELSE IF IsInf(m) THEN Zero
  ELSE Div(Pi, Mul(Two, AgmK(One, Sqrt(Sub(One, m)), Prec)))

\* scipy.special.ellipe(m): complete elliptic integral of the second kind;
\* pi/2 at m = 0, 1 at m = 1, nan for m > 1
ellipe(m) ==
  IF IsNaN(m) \/ Less(One, m) THEN NaN
  ELSE IF m = One THEN One
  ELSE IF IsInf(m) THEN Inf(1)
  ELSE Mul(ellipk(m),
           Sub(One, Add(Div(m, Two), AgmSum(One, Sqrt(Sub(One, m)), One, Prec))))

\* theta = q * (pi/2) + r with |r| <= pi/4: <<q mod 4, r>>, pi/2 taken to 24
\* fractional bits
Reduce(t0) ==
  CHOOSE val \in {(
    IF t.m = 0 \/ t.e < -24 THEN <<0, t>>
    ELSE <<q % 4, Rnd(t.m * 2^(t.e + 24) - q * 26353589, -24)>>
    ) : t \in {t0},
        q \in {IF t0.m = 0 \/ t0.e < -24 THEN 0
               ELSE (t0.m * 2^(t0.e + 24) + 13176794) \div 26353589}} : TRUE

\* sine and cosine of a reduced argument, by their Taylor polynomials
SinR(r0) ==
  CHOOSE val \in {(
    LET p3 == Sub(One, Div(r2, FromInt(42)))
        p2 == Sub(One, Mul(Div(r2, FromInt(20)), p3))
        p1 == Sub(One, Mul(Div(r2, FromInt(6)), p2))
    IN Mul(r, p1)
    ) : r \in {r0}, r2 \in {Sq(r0)}} : TRUE

CosR(r0) ==
  CHOOSE val \in {(
    LET p4 == Sub(One, Div(r2, FromInt(56)))
        p3 == Sub(One, Mul(Div(r2, FromInt(30)), p4))
        p2 == Sub(One, Mul(Div(r2, FromInt(12)), p3))
    IN Sub(One, Mul(Div(r2, Two), p2))
    ) : r2 \in {Sq(r0)}} : TRUE

\* np.cos, np.sin of a finite angle
NpCos(t0) ==
  CHOOSE val \in {(
    CASE qr[1] = 0 -> CosR(qr[2])
      [] qr[1] = 1 -> Neg(SinR(qr[2]))
      [] qr[1] = 2 -> Neg(CosR(qr[2]))
      [] OTHER -> SinR(qr[2])
    ) : qr \in {Reduce(t0)}} : TRUE

NpSin(t0) ==
  CHOOSE val \in {(
    CASE qr[1] = 0 -> SinR(qr[2])
      [] qr[1] = 1 -> CosR(qr[2])
      [] qr[1] = 2 -> Neg(SinR(qr[2]))
      [] OTHER -> Neg(CosR(qr[2]))
    ) : qr \in {Reduce(t0)}} : TRUE

\* np.linalg.norm of a 3-vector: the root of the sum of squares
Norm(v0) ==
  CHOOSE val \in {(
    Sqrt(Add(Add(Sq(v[1]), Sq(v[2])), Sq(v[3])))
    ) : v \in {v0}} : TRUE

\* np.cross of two 3-vectors
Cross(u0, v0) ==
  CHOOSE val \in {(
    << Sub(Mul(u[2], v[3]), Mul(u[3], v[2])),
       Sub(Mul(u[3], v[1]), Mul(u[1], v[3])),
       Sub(Mul(u[1], v[2]), Mul(u[2], v[1])) >>
    ) : u \in {u0}, v \in {v0}} : TRUE

VecAdd(u0, v0) ==
  CHOOSE val \in {(
    << Add(u[1], v[1]), Add(u[2], v[2]), Add(u[3], v[3]) >>
    ) : u \in {u0}, v \in {v0}} : TRUE

VecDiv(u0, c0) ==
  CHOOSE val \in {(
    << Div(u[1], c), Div(u[2], c), Div(u[3], c) >>
    ) : u \in {u0}, c \in {c0}} : TRUE

\* ------------------------------------------------------------------------
\* The module's constant and its expressions
\* ------------------------------------------------------------------------

\* mu0 = 4*np.pi*1e-7 (1e-7 taken to 50 fractional bits, then rounded)
mu0 == Mul(Mul(FromInt(4), Pi), Rnd(112589991, -50))

\* a slip: the denominator of the E term taken for that of ksq
KsqWireDenominator(z, rho, R) ==
  Div(Mul(Mul(FromInt(4), R), rho), Add(Sq(Sub(R, rho)), Sq(z)))

\* ksq = 4*R*rho/((R+rho)**2+z**2)
Ksq(z, rho, R) ==
  Div(Mul(Mul(FromInt(4), R), rho), Add(Sq(Add(R, rho)), Sq(z)))

\* (R-rho)**2+z**2, the divisor of the E term
WireDen(z, rho, R) == Add(Sq(Sub(R, rho)), Sq(z))

\* a slip: z where z**2 is meant
BzCoefNumLinearZ(z, rho, R) == Sub(Sub(Sq(R), Sq(rho)), z)

\* R**2-rho**2-z**2
BzCoefNum(z, rho, R) == Sub(Sub(Sq(R), Sq(rho)), Sq(z))

\* a slip: the E term subtracted
BzReturnValueMinus(z, rho, R, K, E) ==
  Mul(Div(R, Mul(Pi, NpSqrt(Add(Sq(Add(R, rho)), Sq(z))))),
      Sub(K, Div(Mul(E, Sub(Sub(Sq(R), Sq(rho)), Sq(z))), Add(Sq(Sub(R, rho)), Sq(z)))))

\* return R/(np.pi*(np.sqrt((R+rho)**2+z**2)))*(K + E*(R**2-rho**2-z**2)/((R-rho)**2+z**2))
BzReturnValue(z, rho, R, K, E) ==
  Mul(Div(R, Mul(Pi, NpSqrt(Add(Sq(Add(R, rho)), Sq(z))))),
      Add(K, Div(Mul(E, BzCoefNum(z, rho, R)), WireDen(z, rho, R))))

\* return (R*z)/(np.pi*rho*(np.sqrt((R+rho)**2+z**2)))*(-K + E*(R**2+rho**2+z**2)/((R-rho)**2+z**2))
BrhoReturnValue(z, rho, R, K, E) ==
  Mul(Div(Mul(R, z), Mul(Mul(Pi, rho), NpSqrt(Add(Sq(Add(R, rho)), Sq(z))))),
      Add(Neg(K), Div(Mul(E, Add(Add(Sq(R), Sq(rho)), Sq(z))), WireDen(z, rho, R))))

\* return R**3/(R**2+z**2)**(3/2)
FieldLoopOnAxis(z, R) == Div(Cube(R), Pow15(Add(Sq(R), Sq(z))))

\* R**3/(R**2+(z+R/2)**2)**(3/2)
UpperTerm(z, R) == Div(Cube(R), Pow15(Add(Sq(R), Sq(Add(z, Div(R, Two))))))

\* a slip: the second loop a whole radius away
LowerTermFullRadius(z, R) == Div(Cube(R), Pow15(Add(Sq(R), Sq(Sub(z, R)))))

\* R**3/(R**2+(z-R/2)**2)**(3/2)
LowerTerm(z, R) == Div(Cube(R), Pow15(Add(Sq(R), Sq(Sub(z, Div(R, Two))))))

FieldHelmholtzOnAxis(z, R) == Add(UpperTerm(z, R), LowerTerm(z, R))

FieldAntiHelmholtzOnAxis(z, R) == Sub(UpperTerm(z, R), LowerTerm(z, R))

\* mu0*I/(2*R)
Scale(R, I) == Div(Mul(mu0, I), Mul(Two, R))

\* mu0*I/(2*R)*v, v the value the Field function returned
Scaled(R, I, v) == Mul(Scale(R, I), v)

\* a slip: the on-axis case left out
OnAxisNever(rho) == FALSE

\* the guard of FieldLoopBrho: rho == 0
OnAxis(rho) == rho = Zero

\* a slip: rho where abs(rho) is meant
OnUnitLoopNoAbs(z, rho) == z = Zero /\ rho = One

\* the guard of FieldLoopDiscrete: z == 0 and abs(rho) == 1
OnUnitLoop(z, rho) == z = Zero /\ FAbs(rho) = One

\* theta0 = i*2*np.pi/N
Theta0(i, N) == Div(Mul(Mul(FromInt(i), Two), Pi), FromInt(N))

\* theta1 = theta0+2*np.pi/N
Theta1(i, N) == Add(Theta0(i, N), Div(Mul(Two, Pi), FromInt(N)))

\* dl = [cos(theta1) - cos(theta0), sin(theta1) - sin(theta0), 0]
SegmentDl(i, N) ==
  << Sub(NpCos(Theta1(i, N)), NpCos(Theta0(i, N))),
     Sub(NpSin(Theta1(i, N)), NpSin(Theta0(i, N))),
     Zero >>

\* s = [rho-cos(theta0), -sin(theta0), z]
Displacement(z, rho, i, N) ==
  << Sub(rho, NpCos(Theta0(i, N))), Neg(NpSin(Theta0(i, N))), z >>

\* dbf = np.cross(dl, s)/ns**3, ns = np.linalg.norm(s)
SegmentField(z, rho, i, N) ==
  VecDiv(Cross(SegmentDl(i, N), Displacement(z, rho, i, N)),
         Cube(Norm(Displacement(z, rho, i, N))))

ZeroVec == << Zero, Zero, Zero >>

\* ------------------------------------------------------------------------
\* The functions of the module and who calls whom
\* ------------------------------------------------------------------------

\* Magnetic... wrappers and the Field function each one calls
Counterpart ==
  [ MagneticFieldLoopBz |-> "FieldLoopBz",
    MagneticFieldLoopBrho |-> "FieldLoopBrho",
    MagneticFieldLoopOnAxis |-> "FieldLoopOnAxis",
    MagneticFieldHelmholtzOnAxis |-> "FieldHelmholtzOnAxis",
    MagneticFieldHelmholtzBz |-> "FieldHelmholtzBz",
    MagneticFieldHelmholtzBrho |-> "FieldHelmholtzBrho",
    MagneticFieldAntiHelmholtzOnAxis |-> "FieldAntiHelmholtzOnAxis",
    MagneticFieldAntiHelmholtzBz |-> "FieldAntiHelmholtzBz",
    MagneticFieldAntiHelmholtzBrho |-> "FieldAntiHelmholtzBrho" ]

MagneticFns == DOMAIN Counterpart

\* the two-loop off-axis functions: the names their return statement calls,
\* first at z+R/2 and then at z-R/2, and the sign of the second term
PairCalls ==
  [ FieldHelmholtzBz |-> << "FieldLoopBz", "FieldLoopBz", 1 >>,
    FieldHelmholtzBrho |-> << "FieldLoopBro", "FieldLoopBrho", 1 >>,
    FieldAntiHelmholtzBz |-> << "FieldLoopBz", "FieldLoopBz", -1 >>,
    FieldAntiHelmholtzBrho |-> << "FieldLoopBro", "FieldLoopBrho", -1 >> ]

PairFns == DOMAIN PairCalls

\* functions whose body is one return of a closed form in z and R
OnAxisFns == {"FieldLoopOnAxis", "FieldHelmholtzOnAxis", "FieldAntiHelmholtzOnAxis"}

\* every name a def statement of the module binds
DefinedNames ==
  MagneticFns \cup PairFns \cup OnAxisFns
    \cup {"FieldLoopBz", "FieldLoopBrho", "FieldLoopDiscrete"}

\* functions without a rho parameter
NoRho == OnAxisFns \cup {f \in MagneticFns : Counterpart[f] \in OnAxisFns}

\* the line of each function's (last) return statement
ReturnLine ==
  [ FieldLoopBz |-> 39, MagneticFieldLoopBz |-> 44,
    FieldLoopBrho |-> 53, MagneticFieldLoopBrho |-> 58,
    FieldLoopOnAxis |-> 62, MagneticFieldLoopOnAxis |-> 67,
    FieldLoopDiscrete |-> 85,
    FieldHelmholtzOnAxis |-> 94, MagneticFieldHelmholtzOnAxis |-> 99,
    FieldHelmholtzBz |-> 104, MagneticFieldHelmholtzBz |-> 108,
    FieldHelmholtzBrho |-> 113, MagneticFieldHelmholtzBrho |-> 117,
    FieldAntiHelmholtzOnAxis |-> 126, MagneticFieldAntiHelmholtzOnAxis |-> 131,
    FieldAntiHelmholtzBz |-> 136, MagneticFieldAntiHelmholtzBz |-> 140,
    FieldAntiHelmholtzBrho |-> 145, MagneticFieldAntiHelmholtzBrho |-> 149 ]

\* ------------------------------------------------------------------------
\* Inputs
\* ------------------------------------------------------------------------

\* largest segment count tried
MaxN == 4

\* the number after 1
NextAfterOne == Fin(2^(Prec - 1) + 1, -(Prec - 1))

Half == Rnd(1, -1)

\* 2^-600, a number whose square and cube underflow to 0
Tiny == Fin(2^(Prec - 1), -600 - (Prec - 1))

\* axial coordinates: -1, -1/2, 0, 1/2, 1, 3/2, 3 and 2^-600
ZVals == {Rnd(n, -1) : n \in -2 .. 3} \cup {FromInt(3), Tiny}

\* radial coordinates, rho >= 0
RhoVals == {Zero, Half, One, NextAfterOne, Two}

\* radial coordinates of FieldLoopDiscrete, which takes abs(rho)
DiscreteRhoVals == RhoVals \cup {Neg(One), Neg(Half)}

\* loop radii, R > 0
RVals == {One, Two, FromInt(3)}

\* currents
IVals == {Zero, One, FromInt(-2)}

\* a slot that holds no value
NoVal == [k |-> "none", m |-> 0, e |-> 0]

NoVec == << NoVal, NoVal, NoVal >>

\* the activation of fn on its arguments, before its first statement
Frame(fn, z, rho, R, I, N) ==
  [ fn |-> fn, z |-> z, rho |-> rho, R |-> R, I |-> I, N |-> N, pc |-> "start",
    ksq |-> NoVal, K |-> NoVal, E |-> NoVal, v1 |-> NoVal, i |-> 0, bf |-> NoVec ]

\* the calls a user can make
TopCalls ==
  {Frame(fn, z, rho, R, NoVal, 0) :
     fn \in (PairFns \cup {"FieldLoopBz", "FieldLoopBrho"}),
     z \in ZVals, rho \in RhoVals, R \in RVals}
  \cup {Frame(fn, z, NoVal, R, NoVal, 0) : fn \in OnAxisFns, z \in ZVals, R \in RVals}
  \cup {Frame(fn, z, rho, R, I, 0) :
          fn \in MagneticFns \ NoRho, z \in ZVals, rho \in RhoVals, R \in RVals, I \in IVals}
  \cup {Frame(fn, z, NoVal, R, I, 0) :
          fn \in MagneticFns \cap NoRho, z \in ZVals, R \in RVals, I \in IVals}
  \cup {Frame("FieldLoopDiscrete", z, rho, NoVal, NoVal, N) :
          z \in ZVals, rho \in DiscreteRhoVals, N \in 1 .. MaxN}

\* ------------------------------------------------------------------------
\* State
\* ------------------------------------------------------------------------

VARIABLES
  top,      \* the call the user made
  stack,    \* the activations in progress, the running one last
  ret,      \* the value the last return statement returned
  retv,     \* the vector FieldLoopDiscrete returned
  err,      \* the exception being raised, or "none"
  lines,    \* the line numbers of the statements executed, in order
  calls,    \* the calls made by the module's own functions, in order
  rets,     \* the values returned so far, in order
  zeroDiv,  \* the lines where a division had a zero divisor
  zeroDisp  \* whether some segment's displacement s was the zero vector

vars == << top, stack, ret, retv, err, lines, calls, rets, zeroDiv, zeroDisp >>

Top == stack[Len(stack)]

Running(fns, pc) ==
  /\ err = "none"
  /\ stack # << >>
  /\ Top.fn \in fns
  /\ Top.pc = pc

Init ==
  /\ top \in TopCalls
  /\ stack = << top >>
  /\ ret = NoVal
  /\ retv = NoVec
  /\ err = "none"
  /\ lines = << >>
  /\ calls = << >>
  /\ rets = << >>
  /\ zeroDiv = {}
  /\ zeroDisp = FALSE

\* the running activation moves on, at the statement on `line`
Step(f, line) ==
  /\ stack' = [stack EXCEPT ![Len(stack)] = f]
  /\ lines' = Append(lines, line)
  /\ UNCHANGED << top, ret, retv, err, calls, rets, zeroDisp >>

\* the running activation returns v from the statement on `line`
Return(v, line) ==
  /\ stack' = SubSeq(stack, 1, Len(stack) - 1)
  /\ ret' = v
  /\ rets' = Append(rets, v)
  /\ lines' = Append(lines, line)
  /\ UNCHANGED << top, retv, err, calls, zeroDisp >>

\* the running activation, now at pc, calls the defined function callee
Call(callee, z, rho, R, pc, v1) ==
  /\ callee \in DefinedNames
  /\ stack' = Append([stack EXCEPT ![Len(stack)] = [Top EXCEPT !.pc = pc, !.v1 = v1]],
                     Frame(callee, z, rho, R, NoVal, 0))
  /\ calls' = Append(calls, [fn |-> callee, z |-> z, rho |-> rho, R |-> R])
  /\ lines' = Append(lines, ReturnLine[Top.fn])
  /\ UNCHANGED << top, ret, retv, err, rets, zeroDiv, zeroDisp >>

\* {line} when the divisor d of a division on that line is zero
ZeroDivAt(line, d) == IF d = Zero THEN {line} ELSE {}

\* ------------------------------------------------------------------------
\* FieldLoopBz
\* ------------------------------------------------------------------------

BzKsq ==
  /\ Running({"FieldLoopBz"}, "start")
  /\ Step([Top EXCEPT !.pc = "K", !.ksq = Ksq(Top.z, Top.rho, Top.R)], 36)
  /\ zeroDiv' = zeroDiv \cup ZeroDivAt(36, Add(Sq(Add(Top.R, Top.rho)), Sq(Top.z)))

BzK ==
  /\ Running({"FieldLoopBz"}, "K")
  /\ Step([Top EXCEPT !.pc = "E", !.K = ellipk(Top.ksq)], 37)
  /\ UNCHANGED zeroDiv

BzE ==
  /\ Running({"FieldLoopBz"}, "E")
  /\ Step([Top EXCEPT !.pc = "return", !.E = ellipe(Top.ksq)], 38)
  /\ UNCHANGED zeroDiv

BzReturn ==
  /\ Running({"FieldLoopBz"}, "return")
  /\ Return(BzReturnValue(Top.z, Top.rho, Top.R, Top.K, Top.E), 39)
  /\ zeroDiv' = zeroDiv \cup ZeroDivAt(39, WireDen(Top.z, Top.rho, Top.R))

\* ------------------------------------------------------------------------
\* FieldLoopBrho
\* ------------------------------------------------------------------------

BrhoGuard ==
  /\ Running({"FieldLoopBrho"}, "start")
  /\ Step([Top EXCEPT !.pc = IF OnAxis(Top.rho) THEN "return0" ELSE "ksq"], 48)
  /\ UNCHANGED zeroDiv

BrhoReturnZero ==
  /\ Running({"FieldLoopBrho"}, "return0")
  /\ Return(Zero, 49)
  /\ UNCHANGED zeroDiv

BrhoKsq ==
  /\ Running({"FieldLoopBrho"}, "ksq")
  /\ Step([Top EXCEPT !.pc = "K", !.ksq = Ksq(Top.z, Top.rho, Top.R)], 50)
  /\ zeroDiv' = zeroDiv \cup ZeroDivAt(50, Add(Sq(Add(Top.R, Top.rho)), Sq(Top.z)))

BrhoK ==
  /\ Running({"FieldLoopBrho"}, "K")
  /\ Step([Top EXCEPT !.pc = "E", !.K = ellipk(Top.ksq)], 51)
  /\ UNCHANGED zeroDiv

BrhoE ==
  /\ Running({"FieldLoopBrho"}, "E")
  /\ Step([Top EXCEPT !.pc = "return", !.E = ellipe(Top.ksq)], 52)
  /\ UNCHANGED zeroDiv

BrhoReturn ==
  /\ Running({"FieldLoopBrho"}, "return")
  /\ Return(BrhoReturnValue(Top.z, Top.rho, Top.R, Top.K, Top.E), 53)
  /\ zeroDiv' = zeroDiv \cup ZeroDivAt(53, Top.rho)
                        \cup ZeroDivAt(53, WireDen(Top.z, Top.rho, Top.R))

\* ------------------------------------------------------------------------
\* FieldLoopOnAxis, FieldHelmholtzOnAxis, FieldAntiHelmholtzOnAxis
\* ------------------------------------------------------------------------

OnAxisValue(fn, z, R) ==
  CASE fn = "FieldLoopOnAxis" -> FieldLoopOnAxis(z, R)
    [] fn = "FieldHelmholtzOnAxis" -> FieldHelmholtzOnAxis(z, R)
    [] fn = "FieldAntiHelmholtzOnAxis" -> FieldAntiHelmholtzOnAxis(z, R)

\* the smallest divisor of the closed form: (R**2+u**2)**(3/2) is zero only
\* when R is
OnAxisReturn ==
  /\ Running(OnAxisFns, "start")
  /\ Return(OnAxisValue(Top.fn, Top.z, Top.R), ReturnLine[Top.fn])
  /\ zeroDiv' = zeroDiv \cup ZeroDivAt(ReturnLine[Top.fn], Pow15(Sq(Top.R)))

\* ------------------------------------------------------------------------
\* FieldLoopDiscrete
\* ------------------------------------------------------------------------

\* bf = np.array([0, 0, 0])
DiscInit ==
  /\ Running({"FieldLoopDiscrete"}, "start")
  /\ Step([Top EXCEPT !.pc = "guard", !.bf = ZeroVec], 73)
  /\ UNCHANGED zeroDiv

\* if z == 0 and abs(rho)== 1:
DiscGuard ==
  /\ Running({"FieldLoopDiscrete"}, "guard")
  /\ Step([Top EXCEPT !.pc = IF OnUnitLoop(Top.z, Top.rho) THEN "return0" ELSE "loop"], 74)
  /\ UNCHANGED zeroDiv

\* the activation returns its bf from the statement on `line`
ReturnVec(line) ==
  /\ stack' = SubSeq(stack, 1, Len(stack) - 1)
  /\ retv' = Top.bf
  /\ lines' = Append(lines, line)
  /\ UNCHANGED << top, ret, err, calls, rets, zeroDiv, zeroDisp >>

\* return bf (inside the if)
DiscReturnZero ==
  /\ Running({"FieldLoopDiscrete"}, "return0")
  /\ ReturnVec(75)

\* a slip: one iteration too many
InRangeInclusive(i, N) == i <= N

\* range(N) still has the element i
InRange(i, N) == i < N

\* for i in range(N): the next i, or the end of the loop
DiscLoop ==
  /\ Running({"FieldLoopDiscrete"}, "loop")
  /\ Step([Top EXCEPT !.pc = IF InRange(Top.i, Top.N) THEN "body" ELSE "normalise"], 76)
  /\ UNCHANGED zeroDiv

\* the loop body, lines 77 to 83, for segment i
DiscBody ==
  /\ Running({"FieldLoopDiscrete"}, "body")
  /\ stack' = [stack EXCEPT ![Len(stack)] =
                 [Top EXCEPT !.pc = "loop", !.i = Top.i + 1,
                             !.bf = VecAdd(Top.bf, SegmentField(Top.z, Top.rho, Top.i, Top.N))]]
  /\ lines' = lines \o << 77, 78, 79, 80, 81, 82, 83 >>
  /\ zeroDisp' = (zeroDisp \/ Displacement(Top.z, Top.rho, Top.i, Top.N) = ZeroVec)
  /\ zeroDiv' = zeroDiv
       \cup ZeroDivAt(82, Cube(Norm(Displacement(Top.z, Top.rho, Top.i, Top.N))))
  /\ UNCHANGED << top, ret, retv, err, calls, rets >>

\* bf = bf / (2*np.pi)
DiscNormalise ==
  /\ Running({"FieldLoopDiscrete"}, "normalise")
  /\ Step([Top EXCEPT !.pc = "return", !.bf = VecDiv(Top.bf, Mul(Two, Pi))], 84)
  /\ UNCHANGED zeroDiv

\* return bf
DiscReturn ==
  /\ Running({"FieldLoopDiscrete"}, "return")
  /\ ReturnVec(85)

\* ------------------------------------------------------------------------
\* The two-loop functions and the Magnetic... wrappers
\* ------------------------------------------------------------------------

\* the left operand: the first name, called at z+R/2
PairFirst ==
  /\ Running(PairFns, "start")
  /\ Call(PairCalls[Top.fn][1], Add(Top.z, Div(Top.R, Two)), Top.rho, Top.R,
          "second", NoVal)

\* the right operand: the second name, called at z-R/2; the left value is kept
PairSecond ==
  /\ Running(PairFns, "second")
  /\ Call(PairCalls[Top.fn][2], Sub(Top.z, Div(Top.R, Two)), Top.rho, Top.R,
          "combine", ret)

\* a slip: the difference computed as the sum
PairValueAlwaysAdd(sign, left, right) == Add(left, right)

PairValue(sign, left, right) ==
  IF sign = 1 THEN Add(left, right) ELSE Sub(left, right)

\* the sum or the difference of the two values is returned
PairReturn ==
  /\ Running(PairFns, "combine")
  /\ Return(PairValue(PairCalls[Top.fn][3], Top.v1, ret), ReturnLine[Top.fn])
  /\ UNCHANGED zeroDiv

\* mu0*I/(2*R)*Field...(z, rho, R): the call
MagneticCall ==
  /\ Running(MagneticFns, "start")
  /\ Call(Counterpart[Top.fn], Top.z, Top.rho, Top.R, "combine", NoVal)

\* the product is returned
MagneticReturn ==
  /\ Running(MagneticFns, "combine")
  /\ Return(Scaled(Top.R, Top.I, ret), ReturnLine[Top.fn])
  /\ zeroDiv' = zeroDiv \cup ZeroDivAt(ReturnLine[Top.fn], Mul(Two, Top.R))

\* the name the running activation is about to look up and call
NextCallee ==
  IF Top.fn \in MagneticFns THEN Counterpart[Top.fn]
  ELSE IF Top.pc = "start" THEN PairCalls[Top.fn][1]
  ELSE PairCalls[Top.fn][2]

\* looking up a name no def statement binds raises NameError
RaiseNameError ==
  /\ err = "none"
  /\ stack # << >>
  /\ Top.fn \in PairFns \cup MagneticFns
  /\ Top.pc \in {"start", "second"}
  /\ NextCallee \notin DefinedNames
  /\ err' = "NameError"
  /\ lines' = Append(lines, ReturnLine[Top.fn])
  /\ UNCHANGED << top, stack, ret, retv, calls, rets, zeroDiv, zeroDisp >>

\* no function of the module catches: the exception leaves each activation
Propagate ==
  /\ err # "none"
  /\ stack # << >>
  /\ stack' = SubSeq(stack, 1, Len(stack) - 1)
  /\ UNCHANGED << top, ret, retv, err, lines, calls, rets, zeroDiv, zeroDisp >>

Next ==
  \/ BzKsq \/ BzK \/ BzE \/ BzReturn
  \/ BrhoGuard \/ BrhoReturnZero \/ BrhoKsq \/ BrhoK \/ BrhoE \/ BrhoReturn
  \/ OnAxisReturn
  \/ DiscInit \/ DiscGuard \/ DiscReturnZero \/ DiscLoop \/ DiscBody
  \/ DiscNormalise \/ DiscReturn
  \/ PairFirst \/ PairSecond \/ PairReturn
  \/ MagneticCall \/ MagneticReturn
  \/ RaiseNameError \/ Propagate

Spec == Init /\ [][Next]_vars

\* the call the user made has ended, with a value or with an exception
Done == stack = << >>

\* ------------------------------------------------------------------------
\* Properties
\* ------------------------------------------------------------------------

\* FieldLoopBz as a value: lines 36 to 39 in one piece
BzOf(z, rho, R) ==
  BzReturnValue(z, rho, R, ellipk(Ksq(z, rho, R)), ellipe(Ksq(z, rho, R)))

\* the finite number x is exactly M * 2^E
IsExactly(x, M, E) ==
  IF M = 0 THEN x = Zero
  ELSE /\ IsFin(x)
       /\ x.m # 0
       /\ IF x.e >= E THEN x.m * 2^(x.e - E) = M ELSE x.m = M * 2^(E - x.e)

\* a*b, a+b are computed without rounding
ExactMul(a, b) == IsExactly(Mul(a, b), a.m * b.m, a.e + b.e)

ExactAdd(a, b) ==
  IF a.m = 0 \/ b.m = 0 THEN TRUE
  ELSE IF Abs(a.e - b.e) > 2 * Prec THEN FALSE
  ELSE LET g == Min(a.e, b.e)
       IN IsExactly(Add(a, b), a.m * 2^(a.e - g) + b.m * 2^(b.e - g), g)

\* every product and sum of 4*R*rho and of (R+rho)**2+z**2 is exact
KsqExact(z, rho, R) ==
  /\ ExactMul(FromInt(4), R)
  /\ ExactMul(Mul(FromInt(4), R), rho)
  /\ ExactAdd(R, rho)
  /\ ExactMul(Add(R, rho), Add(R, rho))
  /\ ExactMul(z, z)
  /\ ExactAdd(Sq(Add(R, rho)), Sq(z))

\* |a - b| <= 2^n, for finite a and b
Within(a, b, n) ==
  /\ IsFin(a)
  /\ IsFin(b)
  /\ Leq(FAbs(Sub(a, b)), Fin(2^(Prec - 1), n - (Prec - 1)))

\* x is 0 or 2^-300 <= |x| <= 2^300: no square, cube or product of the
\* module's formulas overflows or underflows to 0 on such arguments
Moderate(x) ==
  \/ x = Zero
  \/ /\ IsFin(x)
     /\ Leq(Fin(2^(Prec - 1), -300 - (Prec - 1)), FAbs(x))
     /\ Leq(FAbs(x), Fin(2^(Prec - 1), 300 - (Prec - 1)))

\* (z, rho) is on the wire of the loop of radius R
OnWire(z, rho, R) == rho = R /\ z = Zero

BrhoPairs == {"FieldHelmholtzBrho", "FieldAntiHelmholtzBrho"}

BzPairs == {"FieldHelmholtzBz", "FieldAntiHelmholtzBz"}

\* C1: a call of FieldHelmholtzBrho or FieldAntiHelmholtzBrho at a point off
\* both wires ends without an exception and with a finite number.
C1_BrhoPairsReturnFinite ==
  ( /\ top.fn \in BrhoPairs
    /\ ~OnWire(Add(top.z, Div(top.R, Two)), top.rho, top.R)
    /\ ~OnWire(Sub(top.z, Div(top.R, Two)), top.rho, top.R)
    /\ Done )
    => (err = "none" /\ IsFin(ret))

\* C2: FieldLoopBrho at rho = 0 executes lines 48 and 49 only: it returns 0
\* with ksq, K and E never computed and no division made.
C2_BrhoZeroOnAxis ==
  /\ (stack # << >> /\ Top.fn = "FieldLoopBrho" /\ Top.rho = Zero)
       => ( /\ Top.pc \in {"start", "return0"}
            /\ Top.ksq = NoVal /\ Top.K = NoVal /\ Top.E = NoVal )
  /\ (top.fn = "FieldLoopBrho" /\ top.rho = Zero /\ Done)
       => (err = "none" /\ ret = Zero /\ lines = << 48, 49 >> /\ zeroDiv = {})
  /\ (top.fn = "MagneticFieldLoopBrho" /\ top.rho = Zero /\ rets # << >>)
       => rets[1] = Zero

C2_Witness ==
  /\ top.fn = "FieldLoopBrho" /\ top.rho = Zero /\ top.z # Zero
  /\ Done /\ ret = Zero /\ lines = << 48, 49 >>

\* C3: FieldLoopDiscrete at z = 0, |rho| = 1 returns (0, 0, 0) from line 75,
\* for every N, with no segment visited and no division made.
C3_DiscreteOnLoopZero ==
  (top.fn = "FieldLoopDiscrete" /\ top.z = Zero /\ FAbs(top.rho) = One)
    => /\ ~zeroDisp
       /\ zeroDiv = {}
       /\ stack # << >> => Top.i = 0
       /\ Done => (err = "none" /\ retv = ZeroVec /\ lines = << 73, 74, 75 >>)

C3_Witness ==
  /\ top.fn = "FieldLoopDiscrete" /\ top.z = Zero /\ top.rho = Neg(One)
  /\ top.N > 1 /\ Done /\ retv = ZeroVec

\* C4: a Magnetic... function returns mu0*I/(2R) times the value its Field
\* counterpart returned for the same coordinates and the same R, and zero
\* when I = 0 and that value is finite.
C4_MagneticIsScaledField ==
  (top.fn \in MagneticFns /\ Done)
    => /\ err = "none"
       /\ calls # << >>
       /\ calls[1] = [fn |-> Counterpart[top.fn], z |-> top.z, rho |-> top.rho, R |-> top.R]
       /\ Len(rets) >= 2
       /\ ret = rets[Len(rets)]
       /\ ret = Mul(Div(Mul(mu0, top.I), Mul(Two, top.R)), rets[Len(rets) - 1])
       /\ (top.I = Zero /\ IsFin(rets[Len(rets) - 1])) => ret = Zero

\* the same, for the wrappers that do not reach FieldLoopBro
C4_HoldsOffBrhoPairs ==
  (top.fn \in MagneticFns /\ Counterpart[top.fn] \notin BrhoPairs)
    => C4_MagneticIsScaledField

\* C5: FieldHelmholtzBz and FieldAntiHelmholtzBz call FieldLoopBz exactly
\* twice, at (z+R/2, rho, R) and then at (z-R/2, rho, R), and return the sum,
\* respectively the first value minus the second.
C5_BzSuperposition ==
  (top.fn \in BzPairs /\ Done)
    => /\ err = "none"
       /\ calls = << [fn |-> "FieldLoopBz", z |-> Add(top.z, Div(top.R, Two)),
                      rho |-> top.rho, R |-> top.R],
                     [fn |-> "FieldLoopBz", z |-> Sub(top.z, Div(top.R, Two)),
                      rho |-> top.rho, R |-> top.R] >>
       /\ Len(rets) = 3
       /\ rets[1] = BzOf(Add(top.z, Div(top.R, Two)), top.rho, top.R)
       /\ rets[2] = BzOf(Sub(top.z, Div(top.R, Two)), top.rho, top.R)
       /\ ret = rets[3]
       /\ top.fn = "FieldHelmholtzBz" => ret = Add(rets[1], rets[2])
       /\ top.fn = "FieldAntiHelmholtzBz" => ret = Sub(rets[1], rets[2])

C5_Witness ==
  /\ top.fn = "FieldAntiHelmholtzBz" /\ Done /\ err = "none"
  /\ Len(rets) = 3 /\ IsFin(ret) /\ rets[2] # Zero /\ rets[1] # rets[2]
  /\ ret = Sub(rets[1], rets[2])

\* C6: FieldAntiHelmholtzOnAxis(z, R) = -FieldAntiHelmholtzOnAxis(-z, R), and
\* it is 0 at z = 0.
C6_AntiHelmholtzOdd ==
  (top.fn = "FieldAntiHelmholtzOnAxis" /\ Done)
    => /\ err = "none"
       /\ ret = Neg(FieldAntiHelmholtzOnAxis(Neg(top.z), top.R))
       /\ top.z = Zero => ret = Zero

C6_Witness ==
  /\ top.fn = "FieldAntiHelmholtzOnAxis" /\ Done
  /\ top.z # Zero /\ IsFin(ret) /\ ret # Zero
  /\ ret = Neg(FieldAntiHelmholtzOnAxis(Neg(top.z), top.R))

\* C7: FieldLoopBz(z, rho, R) = FieldLoopBz(-z, rho, R).
C7_BzEvenInZ ==
  (top.fn = "FieldLoopBz" /\ Done)
    => (err = "none" /\ ret = BzOf(Neg(top.z), top.rho, top.R))

C7_Witness ==
  /\ top.fn = "FieldLoopBz" /\ Done
  /\ top.z # Zero /\ top.rho # Zero /\ IsFin(ret) /\ ret # Zero
  /\ ret = BzOf(Neg(top.z), top.rho, top.R)

\* C8 as stated: FieldLoopBz(z, 0, R) and FieldLoopOnAxis(z, R) are the same
\* number.
C8_OnAxisExactlyEqual ==
  (top.fn = "FieldLoopBz" /\ top.rho = Zero /\ Done)
    => (err = "none" /\ ret = FieldLoopOnAxis(top.z, top.R))

\* C8, amended: for z and R of moderate magnitude, at rho = 0, ksq is exactly
\* 0 and K = E = pi/2, and FieldLoopBz(z, 0, R) and FieldLoopOnAxis(z, R),
\* both in [0, 1], differ by at most 16 units of roundoff, 2^(4-Prec).
C8_OnAxisAgreeToRounding ==
  /\ ( /\ stack # << >> /\ Top.fn = "FieldLoopBz" /\ Top.rho = Zero
       /\ Moderate(Top.z) /\ Moderate(Top.R) /\ Top.pc = "return" )
       => (Top.ksq = Zero /\ Top.K = Div(Pi, Two) /\ Top.E = Div(Pi, Two))
  /\ ( /\ top.fn = "FieldLoopBz" /\ top.rho = Zero
       /\ Moderate(top.z) /\ Moderate(top.R) /\ Done )
       => /\ err = "none"
          /\ Within(ret, FieldLoopOnAxis(top.z, top.R), 4 - Prec)

C8_Witness ==
  /\ top.fn = "FieldLoopBz" /\ top.rho = Zero /\ Done
  /\ Moderate(top.z) /\ Moderate(top.R)
  /\ ret # FieldLoopOnAxis(top.z, top.R)
  /\ Within(ret, FieldLoopOnAxis(top.z, top.R), 4 - Prec)

\* an activation of FieldLoopBz or FieldLoopBrho that has computed its ksq
HasKsq ==
  stack # << >> /\ Top.fn \in {"FieldLoopBz", "FieldLoopBrho"} /\ Top.ksq # NoVal

\* some activation of FieldLoopBz so far was on the wire
BzOnWire ==
  \/ (top.fn = "FieldLoopBz" /\ OnWire(top.z, top.rho, top.R))
  \/ \E n \in 1 .. Len(calls) :
       calls[n].fn = "FieldLoopBz" /\ OnWire(calls[n].z, calls[n].rho, calls[n].R)

\* every activation of FieldLoopBz so far had arguments of moderate magnitude
BzModerate ==
  /\ top.fn = "FieldLoopBz" => (Moderate(top.z) /\ Moderate(top.rho) /\ Moderate(top.R))
  /\ \A n \in 1 .. Len(calls) :
       calls[n].fn = "FieldLoopBz"
         => (Moderate(calls[n].z) /\ Moderate(calls[n].rho) /\ Moderate(calls[n].R))

\* C9 as stated: 0 <= ksq <= 1, and ksq = 1 exactly when rho = R and z = 0,
\* which is exactly when (R-rho)**2+z**2 = 0; off the wire FieldLoopBz
\* divides by no zero.
C9_KsqInUnitInterval ==
  /\ HasKsq =>
       /\ Leq(Zero, Top.ksq)
       /\ Leq(Top.ksq, One)
       /\ Top.ksq = One <=> OnWire(Top.z, Top.rho, Top.R)
       /\ Top.ksq = One <=> WireDen(Top.z, Top.rho, Top.R) = Zero
  /\ (zeroDiv \cap {36, 39} # {}) => BzOnWire

\* C9, amended: for arguments of moderate magnitude, ksq >= 0;
\* (R-rho)**2+z**2 = 0 exactly when rho = R and z = 0, and then ksq = 1; when
\* 4*R*rho and (R+rho)**2+z**2 are computed without rounding, ksq <= 1 and
\* ksq = 1 only on the wire; off the wire FieldLoopBz divides by no zero.
C9_KsqDomain ==
  /\ (HasKsq /\ Moderate(Top.z) /\ Moderate(Top.rho) /\ Moderate(Top.R)) =>
       /\ Leq(Zero, Top.ksq)
       /\ WireDen(Top.z, Top.rho, Top.R) = Zero <=> OnWire(Top.z, Top.rho, Top.R)
       /\ OnWire(Top.z, Top.rho, Top.R) => Top.ksq = One
       /\ KsqExact(Top.z, Top.rho, Top.R) =>
            /\ Leq(Top.ksq, One)
            /\ Top.ksq = One => OnWire(Top.z, Top.rho, Top.R)
  /\ (BzModerate /\ zeroDiv \cap {36, 39} # {}) => BzOnWire

C9_Witness ==
  /\ HasKsq /\ Top.fn = "FieldLoopBz" /\ Top.pc = "return"
  /\ Moderate(Top.z) /\ Moderate(Top.rho) /\ Moderate(Top.R)
  /\ KsqExact(Top.z, Top.rho, Top.R)
  /\ Less(Zero, Top.ksq) /\ Less(Top.ksq, One)
  /\ Top.rho = Top.R /\ Top.z # Zero

RECURSIVE Iterations(_)
\* the lines of n passes through the loop of FieldLoopDiscrete
Iterations(n) ==
  IF n = 0 THEN << >>
  ELSE << 76, 77, 78, 79, 80, 81, 82, 83 >> \o Iterations(n - 1)

\* C10 as stated: when the guard of FieldLoopDiscrete does not hold (z # 0
\* or |rho| # 1), the loop body runs exactly N times and the call returns; no
\* segment's displacement s is the zero vector and line 82 divides by no
\* zero; line 84 runs once, after the last pass.
C10_DiscreteGuardSuffices ==
  (top.fn = "FieldLoopDiscrete" /\ ~(top.z = Zero /\ FAbs(top.rho) = One))
    => /\ ~zeroDisp
       /\ 82 \notin zeroDiv
       /\ stack # << >> => Top.i <= top.N
       /\ Done => /\ err = "none"
                  /\ lines = << 73, 74 >> \o Iterations(top.N) \o << 76, 84, 85 >>

\* C10, amended: the same, except that line 82 divides by no zero for z of
\* moderate magnitude only: a division by zero on line 82 happens at rho = 1
\* and a nonzero z below 2^-300, where |s|**3 underflows to 0.  Without
\* that division the returned vector has no nan component.
C10_GuardSufficesUnlessUnderflow ==
  (top.fn = "FieldLoopDiscrete" /\ ~(top.z = Zero /\ FAbs(top.rho) = One))
    => /\ ~zeroDisp
       /\ 82 \in zeroDiv => (top.rho = One /\ ~Moderate(top.z))
       /\ stack # << >> => Top.i <= top.N
       /\ Done => /\ err = "none"
                  /\ lines = << 73, 74 >> \o Iterations(top.N) \o << 76, 84, 85 >>
                  /\ 82 \notin zeroDiv => \A c \in 1 .. 3 : ~IsNaN(retv[c])

C10_Witness ==
  /\ top.fn = "FieldLoopDiscrete" /\ top.z # Zero /\ Moderate(top.z)
  /\ top.rho = One /\ top.N > 1
  /\ Done /\ ~zeroDisp /\ 82 \notin zeroDiv
  /\ lines = << 73, 74 >> \o Iterations(top.N) \o << 76, 84, 85 >>

====
